---- MODULE Spec2Model ----
(***************************************************************************)
(* Truth Prevails: the on-chain hash registry (contract TruthProof), the   *)
(* backend upload / verification routes over the Firestore collections     *)
(* `files` and `users`, the account flows that create a user's wallet, and *)
(* the hex encoding of the SHA-256 digest used as a file's identity.       *)
(*                                                                         *)
(* Four specifications share the module:                                   *)
(*   SpecRegistry  the contract alone, called by arbitrary accounts        *)
(*   Spec          the upload / submit handlers and the dashboard flow,    *)
(*                 interleaved at their await points, over the contract    *)
(*   SpecAuth      signup, Google sign-in, profile and wallet routes       *)
(*   SpecHash      generateFileHash and the length check of POST /verify   *)
(***************************************************************************)
EXTENDS Integers, Sequences, FiniteSets, TLC

\* ------------------------------------------------------------------ bounds
NumHashes == 3       \* non-zero bytes32 values
NumAccounts == 2     \* externally owned accounts calling the contract
MaxTime == 2         \* largest block timestamp
NumContents == 2     \* distinct file contents users upload
MaxUploads == 2      \* upload requests that reach the object store
MaxReqs == 2         \* requests in flight at the same time
MaxBatch == 2        \* items of a verify-batch request
MaxFileReqs == 1     \* requests in flight at the same time on the file routes

\* bytes32(0) and address(0)
ZeroHash == 0
ZeroAddress == 0

Bytes32 == 0..NumHashes
Accounts == 1..NumAccounts
Addresses == 0..NumAccounts

\* Firebase uids; user u signs transactions with account u.
Users == 1..NumAccounts
\* File contents (req.file.buffer).
Contents == 1..NumContents
\* Firestore document ids of the `files` collection and Cloudinary public ids.
FileIds == 1..MaxUploads
PublicIds == 1..MaxUploads
\* Request slots: handlers running concurrently.
Reqs == 1..MaxReqs
FileReqs == 1..MaxFileReqs

VARIABLES
    \* ---- contract TruthProof
    fileVerifications,   \* mapping(bytes32 => FileVerification)
    allHashes,           \* bytes32[]
    events,              \* the HashSubmitted log
    blockTimestamp,      \* block.timestamp of the block being mined
    lastTx,              \* receipt of the transaction mined by the step just taken
    lastCall,            \* view call made by the step just taken, with its result
    \* ---- backend and dashboard
    files,               \* Firestore collection `files`: document id -> FileRecord
    nextFileId,          \* next auto-generated document id
    objects,             \* Cloudinary: public ids of the stored objects
    nextPublicId,        \* next public id Cloudinary hands out
    users,               \* Firestore collection `users`: uid -> user document
    accounts,            \* Firebase Auth: the uids that have an account
    config,              \* CONTRACT_ADDRESS / NEXT_PUBLIC_CONTRACT_ADDRESS set or not
    req,                 \* per slot: the running handler, its position and locals
    lastResp             \* the response (or dashboard toast) sent by the step just taken

regVars == <<fileVerifications, allHashes, events, blockTimestamp, lastTx, lastCall>>
svcVars == <<files, nextFileId, objects, nextPublicId, users, accounts, config, req,
             lastResp>>

vars == <<regVars, svcVars>>

\* ---------------------------------------------------------------- contract

\* The value every key of a Solidity mapping holds before it is written.
EmptyVerification ==
    [hash |-> ZeroHash, submitter |-> ZeroAddress, timestamp |-> 0, exists |-> FALSE]

NoTx == [sender |-> ZeroAddress, hash |-> ZeroHash, status |-> "none"]
NoCall == [fn |-> "none"]

\* No answer to any client.
\* `user` is the user record the step hands to the client, `batch` the body of a
\* verify or verify-batch answer; each is <<>> when the step hands none. `to` is the authenticated
\* caller a file route answers at its ownership check, `hash` the hash a verify answer
\* echoes.
NoResp == [code |-> 0, error |-> "none", cause |-> "none", fileId |-> 0, user |-> <<>>,
           batch |-> <<>>, to |-> 0, hash |-> <<>>]

hashNotExists_absent(_hash) == TRUE

\* modifier hashNotExists: require(!fileVerifications[_hash].exists)
hashNotExists(_hash) == ~fileVerifications[_hash].exists

validHash_any(_hash) == TRUE

\* require(_hash != bytes32(0), "Invalid hash")
validHash(_hash) == _hash # ZeroHash

newVerification_noSender(sender, _hash) ==
    [hash |-> _hash, submitter |-> ZeroAddress, timestamp |-> blockTimestamp, exists |-> TRUE]

\* FileVerification({hash: _hash, submitter: msg.sender, timestamp: block.timestamp, exists: true})
newVerification(sender, _hash) ==
    [hash |-> _hash, submitter |-> sender, timestamp |-> blockTimestamp, exists |-> TRUE]

\* A reverted transaction: mined, but every storage write is undone.
revert(sender, _hash, reason) ==
    /\ lastTx' = [sender |-> sender, hash |-> _hash, status |-> reason]
    /\ UNCHANGED <<fileVerifications, allHashes, events>>

\* A step that sends no transaction.
noTransaction ==
    /\ lastTx' = NoTx
    /\ UNCHANGED <<fileVerifications, allHashes, events>>

\* function submitHash(bytes32 _hash) public hashNotExists(_hash), as one transaction
\* sent by `sender`.
submitHash(sender, _hash) ==
    IF ~hashNotExists(_hash) THEN revert(sender, _hash, "Hash already exists")
    ELSE IF ~validHash(_hash) THEN revert(sender, _hash, "Invalid hash")
    ELSE /\ fileVerifications' =
                [fileVerifications EXCEPT ![_hash] = newVerification(sender, _hash)]
         /\ allHashes' = Append(allHashes, _hash)
         /\ events' = Append(events,
                [hash |-> _hash, submitter |-> sender, timestamp |-> blockTimestamp])
         /\ lastTx' = [sender |-> sender, hash |-> _hash, status |-> "ok"]

verifyHash_guarded(_hash) ==
    IF fileVerifications[_hash].exists
    THEN [reverted |-> FALSE, exists |-> TRUE,
          submitter |-> fileVerifications[_hash].submitter,
          timestamp |-> fileVerifications[_hash].timestamp]
    ELSE [reverted |-> TRUE, exists |-> FALSE, submitter |-> ZeroAddress, timestamp |-> 0]

\* function verifyHash(bytes32 _hash) public view returns (exists, submitter, timestamp)
verifyHash(_hash) ==
    LET verification == fileVerifications[_hash]
    IN  [reverted |-> FALSE, exists |-> verification.exists,
         submitter |-> verification.submitter, timestamp |-> verification.timestamp]

\* function getTotalHashes(): allHashes.length
getTotalHashes == Len(allHashes)

getAllHashes_reversed == [i \in 1..Len(allHashes) |-> allHashes[Len(allHashes) + 1 - i]]

\* function getAllHashes(): a copy of allHashes
getAllHashes == allHashes

\* The first loop of getHashesBySubmitter, from index i on: tempHashes[count] =
\* allHashes[i]; count++ for each entry whose submitter is _submitter. The sequence is
\* tempHashes[0..count-1]; indices are the contract's plus one.
RECURSIVE tempHashes(_, _, _)
tempHashes(_submitter, i, temp) ==
    IF i > Len(allHashes) THEN temp
    ELSE tempHashes(_submitter, i + 1,
                    IF fileVerifications[allHashes[i]].submitter = _submitter
                    THEN Append(temp, allHashes[i])
                    ELSE temp)

getHashesBySubmitter_all(_submitter) == allHashes

\* function getHashesBySubmitter(address _submitter): the second loop copies the
\* first count entries of tempHashes into result.
getHashesBySubmitter(_submitter) ==
    LET temp  == tempHashes(_submitter, 1, <<>>)
        count == Len(temp)
    IN  [i \in 1..count |-> temp[i]]

\* function hasSubmittedHashes(address _submitter): true at the first entry of
\* allHashes whose submitter is _submitter, false after the loop.
hasSubmittedHashes(_submitter) ==
    \E i \in 1..Len(allHashes) : fileVerifications[allHashes[i]].submitter = _submitter

getRecentHashes_oldest(_count) ==
    LET totalHashes == Len(allHashes)
        count       == IF _count > totalHashes THEN totalHashes ELSE _count
    IN  [i \in 1..count |-> allHashes[i]]

\* function getRecentHashes(uint256 _count): result[i] = allHashes[totalHashes - count
\* + i] for i < count, with count clamped to totalHashes.
getRecentHashes(_count) ==
    LET totalHashes == Len(allHashes)
        count       == IF _count > totalHashes THEN totalHashes ELSE _count
    IN  [i \in 1..count |-> allHashes[totalHashes - count + i]]

\* ------------------------------------------------- the contract's callers

\* The values of _count a caller passes: none, some, all, and more than there can be.
Counts == 0..(NumHashes + 1)

\* A call of a view function: it reads the state and sends no transaction.
View(call) ==
    /\ lastCall' = call
    /\ noTransaction
    /\ UNCHANGED <<blockTimestamp, svcVars>>

GetTotalHashes == View([fn |-> "getTotalHashes", result |-> getTotalHashes])

GetAllHashes == View([fn |-> "getAllHashes", result |-> getAllHashes])

GetHashesBySubmitter(_submitter) ==
    View([fn |-> "getHashesBySubmitter", submitter |-> _submitter,
          result |-> getHashesBySubmitter(_submitter)])

HasSubmittedHashes(_submitter) ==
    View([fn |-> "hasSubmittedHashes", submitter |-> _submitter,
          result |-> hasSubmittedHashes(_submitter)])

GetRecentHashes(_count) ==
    View([fn |-> "getRecentHashes", count |-> _count, result |-> getRecentHashes(_count)])

\* Any account sends submitHash with any bytes32 argument.
SubmitHash(sender, _hash) ==
    /\ submitHash(sender, _hash)
    /\ lastCall' = NoCall
    /\ lastResp' = NoResp
    /\ UNCHANGED <<blockTimestamp, files, nextFileId, objects, nextPublicId, users,
                   accounts, config, req>>

\* Anyone calls the view function verifyHash.
VerifyHash(_hash) ==
    /\ lastCall' = [fn |-> "verifyHash", hash |-> _hash, result |-> verifyHash(_hash)]
    /\ noTransaction
    /\ lastResp' = NoResp
    /\ UNCHANGED <<blockTimestamp, files, nextFileId, objects, nextPublicId, users,
                   accounts, config, req>>

\* A later block: block.timestamp grows.
NextBlock ==
    /\ blockTimestamp < MaxTime
    /\ blockTimestamp' = blockTimestamp + 1
    /\ noTransaction
    /\ lastCall' = NoCall
    /\ UNCHANGED svcVars

\* ------------------------------------------------------------- wallet module

\* The key material generateWallet derives for account w: one key pair per mnemonic.
walletInfoOf(w) == [address |-> w, privateKey |-> w, mnemonic |-> w]

\* process.env.ENCRYPTION_SECRET || 'default-key'
EncryptionSecret == "default-key"

\* CryptoJS.AES.encrypt(JSON.stringify(walletInfo), encryptionKey).toString()
encryptWalletInfo(walletInfo, encryptionKey) ==
    [ciphertextOf |-> walletInfo, under |-> encryptionKey]

\* JSON.parse(CryptoJS.AES.decrypt(encryptedData, encryptionKey).toString(Utf8)):
\* under another key the plaintext is not JSON and JSON.parse throws.
decryptWalletInfo(encryptedData, encryptionKey) ==
    IF encryptedData.under = encryptionKey
    THEN [threw |-> FALSE, walletInfo |-> encryptedData.ciphertextOf]
    ELSE [threw |-> TRUE, walletInfo |-> walletInfoOf(ZeroAddress)]

\* new ethers.Wallet(privateKey, provider): the account the key controls.
walletAddressOf(privateKey) == privateKey

\* The user document signup writes for uid u whose generated wallet is account w.
userDocument(u, w, provider) ==
    [uid |-> u, name |-> "name", email |-> u,
     walletAddress |-> walletInfoOf(w).address,
     encryptedWallet |-> encryptWalletInfo(walletInfoOf(w), EncryptionSecret),
     provider |-> provider]

\* ------------------------------------------------------------ hash function

\* ethers.sha256(new Uint8Array(buffer)) as a bytes32 value: distinct contents of the
\* model have distinct, non-zero digests.
generateFileHash(buffer) == NumHashes + 1 - buffer

\* A SHA-256 digest has 32 bytes (the contract's bytes32).
DigestBytes == 32

HexDigits == <<"0", "1", "2", "3", "4", "5", "6", "7",
               "8", "9", "a", "b", "c", "d", "e", "f">>

\* The n big-endian bytes of the value v.
RECURSIVE toBeBytes(_, _)
toBeBytes(v, n) == IF n = 0 THEN <<>> ELSE Append(toBeBytes(v \div 256, n - 1), v % 256)

\* Two lower-case hex digits per byte.
RECURSIVE hexDigitsOf(_)
hexDigitsOf(bytes) ==
    IF bytes = <<>> THEN <<>>
    ELSE <<HexDigits[(Head(bytes) \div 16) + 1], HexDigits[(Head(bytes) % 16) + 1]>>
             \o hexDigitsOf(Tail(bytes))

\* ethers' hexlify: the DataHexString of the bytes, "0x" first.
hexlify(bytes) == <<"0", "x">> \o hexDigitsOf(bytes)

\* The string ethers.sha256 returns for the digest h, which is what generateFileHash
\* hands to the upload route and what the route stores as fileHash.
fileHashString(h) == hexlify(toBeBytes(h, DigestBytes))

\* The fileHash field as stored, for each digest a record can hold.
storedFileHash == [h \in Bytes32 |-> fileHashString(h)]

\* ethers' isHexString(value, 32): "0x" and then exactly 32 bytes of hex digits.
isBytes32String(s) ==
    /\ Len(s) = 2 + 2 * DigestBytes
    /\ s[1] = "0" /\ s[2] = "x"
    /\ \A i \in 3..Len(s) : \E d \in DOMAIN HexDigits : HexDigits[d] = s[i]

\* The bytes32 value a contract call encodes for the hex string s.
RECURSIVE valueOfHex(_)
valueOfHex(s) ==
    IF s = <<>> THEN 0
    ELSE valueOfHex(SubSeq(s, 1, Len(s) - 1)) * 16
             + (CHOOSE d \in DOMAIN HexDigits : HexDigits[d] = s[Len(s)]) - 1

\* ----------------------------------------------------- requests and responses

Idle == [pc |-> "idle", kind |-> "none", user |-> 0, hash |-> ZeroHash, fileId |-> 0,
         publicId |-> 0, wallet |-> ZeroAddress, txHash |-> 0, fileName |-> "",
         details |-> "", docs |-> {}]

\* A new request takes the lowest free slot (slots are interchangeable).
FreeSlot(r) == req[r].pc = "idle" /\ \A q \in Reqs : q < r => req[q].pc # "idle"

\* res.status(code).json({error, ...}) (or the dashboard's toast) ends the flow in slot r.
Respond(r, code, error, cause, fileId) ==
    /\ lastResp' = [NoResp EXCEPT !.code = code, !.error = error, !.cause = cause,
                                  !.fileId = fileId]
    /\ req' = [req EXCEPT ![r] = Idle]

\* The handler in slot r goes on to its next await without responding.
Goto(r, pc) == req' = [req EXCEPT ![r].pc = pc] /\ lastResp' = NoResp

\* A step that touches neither the chain nor its clock.
offChain == noTransaction /\ lastCall' = NoCall /\ UNCHANGED blockTimestamp

\* --------------------------------------------------- blockchain submission

\* What an RPC round trip can do: answer, fail before the transaction is sent, or
\* fail in tx.wait() after the transaction was mined.
RpcOutcomes == {"ok", "down", "lost"}

submitHashToBlockchain_unchecked(hash, privateKey, rpc, threw) ==
    IF ~config.backendContract \/ rpc = "down"
    THEN ~threw /\ noTransaction
    ELSE /\ submitHash(walletAddressOf(privateKey), hash)
         /\ ~threw

\* const submitHashToBlockchain = async (hash, privateKey) (backend); `threw` is
\* whether the call throws: contract not configured, an RPC error, or a revert.
submitHashToBlockchain(hash, privateKey, rpc, threw) ==
    IF ~config.backendContract \/ rpc = "down"
    THEN threw /\ noTransaction
    ELSE /\ submitHash(walletAddressOf(privateKey), hash)
         /\ threw = (rpc = "lost" \/ lastTx'.status # "ok")

\* error.message of what submitHashToBlockchain throws: the configuration error is
\* thrown before the try; everything thrown inside it (a failing RPC, an invalid key, a
\* revert of the contract) is replaced by one fixed message.
submissionError ==
    IF ~config.backendContract THEN "Contract not configured"
    ELSE "Failed to submit hash to blockchain"

\* BlockchainService.submitHash(hash, privateKey) (frontend), the same steps against
\* the frontend's own contract configuration.
blockchainService_submitHash(hash, privateKey, rpc, threw) ==
    IF ~config.frontendContract \/ rpc = "down"
    THEN threw /\ noTransaction
    ELSE /\ submitHash(walletAddressOf(privateKey), hash)
         /\ threw = (rpc = "lost" \/ lastTx'.status # "ok")

\* ------------------------------------------------------ POST /api/files/upload

existingFile_anyOwner(u, h) == {f \in DOMAIN files : files[f].fileHash = h}

\* The (user, hash) duplicate query: where fileHash == h, where userId == u, limit 1.
existingFile(u, h) == {f \in DOMAIN files : files[f].fileHash = h /\ files[f].userId = u}

\* The record the handler adds (size, type and the dates are left out; every upload
\* of the model carries the same original name).
fileRecord(r) ==
    [userId |-> req[r].user, fileHash |-> req[r].hash, publicId |-> req[r].publicId,
     walletAddress |-> req[r].wallet, verificationStatus |-> "pending", transactionHash |-> 0,
     fileName |-> "name"]

\* An authenticated user posts a file, directly (kind "upload") or from the dashboard's
\* onDrop (kind "onDrop"), which goes on to submit the hash itself. The handler hashes
\* the buffer and reaches its first await, cloudinary.uploader.upload_stream(...), which
\* stores the bytes or fails with 500.
StartUpload(r, u, buffer, kind, ok) ==
    /\ FreeSlot(r)
    /\ nextPublicId <= MaxUploads
    /\ IF ok
       THEN /\ objects' = objects \cup {nextPublicId}
            /\ nextPublicId' = nextPublicId + 1
            /\ req' = [req EXCEPT ![r] = [Idle EXCEPT !.pc = "check", !.kind = kind,
                                                     !.user = u,
                                                     !.hash = generateFileHash(buffer),
                                                     !.publicId = nextPublicId]]
            /\ lastResp' = NoResp
       ELSE /\ Respond(r, 500, "Failed to upload to Cloudinary", "cloudinary", 0)
            /\ UNCHANGED <<objects, nextPublicId>>
    /\ UNCHANGED <<files, nextFileId, users, accounts, config>>
    /\ offChain

\* await db.collection('files').where(fileHash).where(userId).limit(1).get(): 409 when
\* the user already has a record with this hash.
UploadCheck(r, dbOk) ==
    /\ req[r].pc = "check"
    /\ IF ~dbOk THEN Respond(r, 500, "Failed to upload file", "db", 0)
       ELSE IF existingFile(req[r].user, req[r].hash) # {}
       THEN Respond(r, 409, "File already exists", "duplicate",
                    CHOOSE f \in existingFile(req[r].user, req[r].hash) : TRUE)
       ELSE Goto(r, "user")
    /\ UNCHANGED <<files, nextFileId, objects, nextPublicId, users, accounts, config>>
    /\ offChain

\* await db.collection('files').where(userId).get(), the debug listing whose result is
\* only logged, and await db.collection('users').doc(uid).get() for
\* userData?.walletAddress || 'unknown'.
UploadUser(r, dbOk) ==
    /\ req[r].pc = "user"
    /\ IF ~dbOk THEN Respond(r, 500, "Failed to upload file", "db", 0)
       ELSE /\ req' = [req EXCEPT ![r].pc = "add",
                                  ![r].wallet = IF req[r].user \in DOMAIN users
                                                THEN users[req[r].user].walletAddress
                                                ELSE ZeroAddress]
            /\ lastResp' = NoResp
    /\ UNCHANGED <<files, nextFileId, objects, nextPublicId, users, accounts, config>>
    /\ offChain

\* await db.collection('files').add(fileRecord); res.status(201). The dashboard then
\* continues with the submission of the hash (result.file.transactionHash is never set).
UploadAdd(r, dbOk) ==
    /\ req[r].pc = "add"
    /\ IF ~dbOk
       THEN /\ Respond(r, 500, "Failed to upload file", "db", 0)
            /\ UNCHANGED <<files, nextFileId>>
       ELSE /\ files' = files @@ (nextFileId :> fileRecord(r))
            /\ nextFileId' = nextFileId + 1
            /\ IF req[r].kind = "onDrop"
               THEN /\ req' = [req EXCEPT ![r].pc = "c_user", ![r].fileId = nextFileId]
                    /\ lastResp' = [NoResp EXCEPT !.code = 201, !.fileId = nextFileId]
               ELSE Respond(r, 201, "none", "none", nextFileId)
    /\ UNCHANGED <<objects, nextPublicId, users, accounts, config>>
    /\ offChain

\* ------------------------------------------ dashboard onDrop, after the upload

verifiedUpdate_statusOnly(f, transactionHash) ==
    [files EXCEPT ![f].verificationStatus = "verified"]

\* update / updateDoc of {verificationStatus: 'verified', transactionHash}: one write.
verifiedUpdate(f, transactionHash) ==
    [files EXCEPT ![f].verificationStatus = "verified",
                  ![f].transactionHash = transactionHash]

\* getDoc(doc(db, 'users', user.uid)) in the browser and decryptWalletInfo of its
\* encryptedWallet; any failure lands in the catch, which only shows a toast.
ClientUser(r, dbOk) ==
    /\ req[r].pc = "c_user"
    /\ LET u == req[r].user
           decrypted == decryptWalletInfo(users[u].encryptedWallet, EncryptionSecret)
       IN  IF ~dbOk \/ u \notin DOMAIN users \/ decrypted.threw
           THEN Respond(r, 0, "File uploaded but blockchain submission failed", "db",
                        req[r].fileId)
           ELSE /\ req' = [req EXCEPT ![r].pc = "c_chain",
                                      ![r].wallet = decrypted.walletInfo.privateKey]
                /\ lastResp' = [NoResp EXCEPT !.user = users[u]]
    /\ UNCHANGED <<files, nextFileId, objects, nextPublicId, users, accounts, config>>
    /\ offChain

\* await blockchainService.submitHash(fileHash, walletInfo.privateKey); when it throws,
\* the catch shows a toast and the record is not touched.
ClientSubmit(r, rpc, threw) ==
    /\ req[r].pc = "c_chain"
    /\ blockchainService_submitHash(req[r].hash, req[r].wallet, rpc, threw)
    /\ IF threw
       THEN Respond(r, 0, "File uploaded but blockchain submission failed", "chain",
                    req[r].fileId)
       ELSE /\ req' = [req EXCEPT ![r].pc = "c_update", ![r].txHash = Len(events')]
            /\ lastResp' = NoResp
    /\ UNCHANGED <<files, nextFileId, objects, nextPublicId, users, accounts, config>>
    /\ lastCall' = NoCall /\ UNCHANGED blockTimestamp

\* updateDoc(doc(db, 'files', result.fileId), {transactionHash, verificationStatus:
\* 'verified'}); updateDoc of a missing document rejects.
ClientUpdate(r, dbOk) ==
    /\ req[r].pc = "c_update"
    /\ IF ~dbOk \/ req[r].fileId \notin DOMAIN files
       THEN /\ Respond(r, 0, "File uploaded but blockchain submission failed", "db",
                       req[r].fileId)
            /\ UNCHANGED files
       ELSE /\ files' = verifiedUpdate(req[r].fileId, req[r].txHash)
            /\ Respond(r, 0, "none", "none", req[r].fileId)
    /\ UNCHANGED <<nextFileId, objects, nextPublicId, users, accounts, config>>
    /\ offChain

\* ------------------------------------------- /api/files/:fileId routes

ownsFile_any(u, f) == TRUE

\* fileData.userId === req.user.uid
ownsFile(u, f) == files[f].userId = u

\* File names a PUT may carry; the empty one fails isLength({ min: 1 }).
FileNames == {"", "renamed"}

\* The answer a file route gives the caller u before it takes up its slot.
Answer(u, code, error, cause, fileId) ==
    lastResp' = [NoResp EXCEPT !.code = code, !.error = error, !.cause = cause,
                               !.fileId = fileId, !.to = u]

\* A 400 or 500 of a file route: {error, details}, whoever asked for whichever id.
Fail(code, error, cause) ==
    lastResp' = [NoResp EXCEPT !.code = code, !.error = error, !.cause = cause]

\* The same from a handler that would go on in its slot: the slot stays free.
Refuse(u, code, error, cause, fileId) ==
    Answer(u, code, error, cause, fileId) /\ UNCHANGED req

\* GET /api/files/:fileId: the record to its owner. The request takes a free slot and
\* gives it back with its answer.
GetFile(r, u, f, dbOk) ==
    /\ FreeSlot(r)
    /\ IF ~dbOk THEN Fail(500, "Failed to fetch file", "db")
       ELSE IF f \notin DOMAIN files THEN Answer(u, 404, "File not found", "none", f)
       ELSE IF ~ownsFile(u, f) THEN Answer(u, 403, "Access denied", "none", f)
       ELSE Answer(u, 200, "none", "file", f)
    /\ UNCHANGED <<files, nextFileId, objects, nextPublicId, users, accounts, config, req>>
    /\ offChain

\* GET /api/files/:fileId/download: a signed URL of the stored object to the owner.
DownloadUrl(r, u, f, dbOk) ==
    /\ FreeSlot(r)
    /\ IF ~dbOk THEN Fail(500, "Failed to generate download URL", "db")
       ELSE IF f \notin DOMAIN files THEN Answer(u, 404, "File not found", "none", f)
       ELSE IF ~ownsFile(u, f) THEN Answer(u, 403, "Access denied", "none", f)
       ELSE Answer(u, 200, "none", "downloadUrl", f)
    /\ UNCHANGED <<files, nextFileId, objects, nextPublicId, users, accounts, config, req>>
    /\ offChain

\* PUT /api/files/:fileId up to its get: validation of fileName, then 404 / 403.
StartUpdate(r, u, f, given, fileName, dbOk) ==
    /\ FreeSlot(r)
    /\ IF given /\ fileName = ""
       THEN Fail(400, "File name cannot be empty", "validation") /\ UNCHANGED req
       ELSE IF ~dbOk THEN Fail(500, "Failed to update file", "db") /\ UNCHANGED req
       ELSE IF f \notin DOMAIN files THEN Refuse(u, 404, "File not found", "none", f)
       ELSE IF ~ownsFile(u, f) THEN Refuse(u, 403, "Access denied", "none", f)
       ELSE /\ req' = [req EXCEPT ![r] = [Idle EXCEPT !.pc = "p_update", !.kind = "update",
                                             !.user = u, !.fileId = f,
                                             !.fileName = IF given THEN fileName ELSE ""]]
            /\ lastResp' = NoResp
    /\ UNCHANGED <<files, nextFileId, objects, nextPublicId, users, accounts, config>>
    /\ offChain

\* await db.collection('files').doc(fileId).update(updateData): fileName when one was
\* given (updatedAt is not modelled); update() of a deleted document rejects.
UpdateDoc(r, dbOk) ==
    /\ req[r].pc = "p_update"
    /\ LET f == req[r].fileId
       IN  IF ~dbOk \/ f \notin DOMAIN files
           THEN /\ Respond(r, 500, "Failed to update file", "db", f)
                /\ UNCHANGED files
           ELSE /\ files' = IF req[r].fileName # ""
                            THEN [files EXCEPT ![f].fileName = req[r].fileName]
                            ELSE files
                /\ Respond(r, 200, "none", "updated", f)
    /\ UNCHANGED <<nextFileId, objects, nextPublicId, users, accounts, config>>
    /\ offChain

\* DELETE /api/files/:fileId up to its get: 404 / 403.
StartDelete(r, u, f, dbOk) ==
    /\ FreeSlot(r)
    /\ IF ~dbOk THEN Fail(500, "Failed to delete file", "db") /\ UNCHANGED req
       ELSE IF f \notin DOMAIN files THEN Refuse(u, 404, "File not found", "none", f)
       ELSE IF ~ownsFile(u, f) THEN Refuse(u, 403, "Access denied", "none", f)
       ELSE /\ req' = [req EXCEPT ![r] = [Idle EXCEPT !.pc = "d_cloud", !.kind = "delete",
                                             !.user = u, !.fileId = f,
                                             !.publicId = files[f].publicId]]
            /\ lastResp' = NoResp
    /\ UNCHANGED <<files, nextFileId, objects, nextPublicId, users, accounts, config>>
    /\ offChain

DeleteCloud_strict(r, ok) ==
    /\ req[r].pc = "d_cloud"
    /\ IF ok
       THEN objects' = objects \ {req[r].publicId} /\ Goto(r, "d_delete")
       ELSE UNCHANGED objects /\ Respond(r, 500, "Failed to delete file", "cloudinary", req[r].fileId)
    /\ UNCHANGED <<files, nextFileId, nextPublicId, users, accounts, config>>
    /\ offChain

\* try { await deleteFromCloudinary(fileData.publicId) } catch { console.warn }: the
\* object is destroyed, or the failure is logged and the handler goes on.
DeleteCloud(r, ok) ==
    /\ req[r].pc = "d_cloud"
    /\ objects' = IF ok THEN objects \ {req[r].publicId} ELSE objects
    /\ Goto(r, "d_delete")
    /\ UNCHANGED <<files, nextFileId, nextPublicId, users, accounts, config>>
    /\ offChain

\* await db.collection('files').doc(fileId).delete(), then 200.
DeleteDoc(r, dbOk) ==
    /\ req[r].pc = "d_delete"
    /\ LET f == req[r].fileId
       IN  IF ~dbOk
           THEN /\ Respond(r, 500, "Failed to delete file", "db", f)
                /\ UNCHANGED files
           ELSE /\ files' = [g \in DOMAIN files \ {f} |-> files[g]]
                /\ Respond(r, 200, "none", "deleted", f)
    /\ UNCHANGED <<nextFileId, objects, nextPublicId, users, accounts, config>>
    /\ offChain

\* --------------------------------------- POST /api/verification/submit/:fileId

\* An authenticated user asks for the submission of a file id: await
\* db.collection('files').doc(fileId).get(), then the 404 / 403 / 400 checks.
StartSubmit(r, u, f, dbOk) ==
    /\ FreeSlot(r)
    /\ IF ~dbOk THEN Fail(500, "Failed to submit for verification", "db") /\ UNCHANGED req
       ELSE IF f \notin DOMAIN files THEN Refuse(u, 404, "File not found", "none", f)
       ELSE IF ~ownsFile(u, f) THEN Refuse(u, 403, "Access denied", "none", f)
       ELSE IF files[f].verificationStatus = "verified"
       THEN Refuse(u, 400, "File already verified", "none", f)
       ELSE /\ req' = [req EXCEPT ![r] = [Idle EXCEPT !.pc = "s_user", !.kind = "submit",
                                                     !.user = u, !.fileId = f,
                                                     !.hash = files[f].fileHash]]
            /\ lastResp' = NoResp
    /\ UNCHANGED <<files, nextFileId, objects, nextPublicId, users, accounts, config>>
    /\ offChain

\* await db.collection('users').doc(uid).get() and the decryption of the wallet; a
\* throw here reaches the outer catch.
SubmitUser(r, dbOk) ==
    /\ req[r].pc = "s_user"
    /\ LET u == req[r].user
           decrypted == decryptWalletInfo(users[u].encryptedWallet, EncryptionSecret)
       IN  IF ~dbOk \/ u \notin DOMAIN users \/ decrypted.threw
           THEN Respond(r, 500, "Failed to submit for verification", "db", req[r].fileId)
           ELSE /\ req' = [req EXCEPT ![r].pc = "s_chain",
                                      ![r].wallet = decrypted.walletInfo.privateKey]
                /\ lastResp' = NoResp
    /\ UNCHANGED <<files, nextFileId, objects, nextPublicId, users, accounts, config>>
    /\ offChain

\* transactionHash = await submitHashToBlockchain(fileData.fileHash, privateKey), inside
\* the inner try.
SubmitChain(r, rpc, threw) ==
    /\ req[r].pc = "s_chain"
    /\ submitHashToBlockchain(req[r].hash, req[r].wallet, rpc, threw)
    /\ IF threw
       THEN req' = [req EXCEPT ![r].pc = "s_failed", ![r].details = submissionError]
       ELSE /\ req' = [req EXCEPT ![r].pc = "s_verified", ![r].txHash = Len(events')]
            /\ lastResp' = NoResp
    /\ lastResp' = NoResp
    /\ UNCHANGED <<files, nextFileId, objects, nextPublicId, users, accounts, config>>
    /\ lastCall' = NoCall /\ UNCHANGED blockTimestamp

SubmitMarkFailed_hangs(r, dbOk) ==
    /\ req[r].pc = "s_failed"
    /\ LET f == req[r].fileId
       IN  IF ~dbOk \/ f \notin DOMAIN files
           THEN /\ Goto(r, "s_hung")
                /\ UNCHANGED files
           ELSE /\ files' = [files EXCEPT ![f].verificationStatus = "failed"]
                /\ Respond(r, 500, "Blockchain submission failed", req[r].details, f)
    /\ UNCHANGED <<nextFileId, objects, nextPublicId, users, accounts, config>>
    /\ offChain

\* The inner catch: update {verificationStatus: 'failed'}, then 500. If the update
\* itself throws inside the catch block, the outer catch answers with the message of
\* that rejected update.
SubmitMarkFailed(r, dbOk) ==
    /\ req[r].pc = "s_failed"
    /\ LET f == req[r].fileId
       IN  IF ~dbOk \/ f \notin DOMAIN files
           THEN /\ Respond(r, 500, "Failed to submit for verification", "update", f)
                /\ UNCHANGED files
           ELSE /\ files' = [files EXCEPT ![f].verificationStatus = "failed"]
                /\ Respond(r, 500, "Blockchain submission failed", req[r].details, f)
    /\ UNCHANGED <<nextFileId, objects, nextPublicId, users, accounts, config>>
    /\ offChain

\* update {verificationStatus: 'verified', transactionHash, ...}, then 200.
SubmitMarkVerified(r, dbOk) ==
    /\ req[r].pc = "s_verified"
    /\ LET f == req[r].fileId
       IN  IF ~dbOk \/ f \notin DOMAIN files
           THEN /\ Respond(r, 500, "Failed to submit for verification", "db", f)
                /\ UNCHANGED files
           ELSE /\ files' = verifiedUpdate(f, req[r].txHash)
                /\ Respond(r, 200, "none", "none", f)
    /\ UNCHANGED <<nextFileId, objects, nextPublicId, users, accounts, config>>
    /\ offChain

\* ------------------------------------------------------ accounts and wallets

\* Names a profile can carry; "x" is too short for the route's isLength({min: 2}).
Names == {"x", "name", "renamed"}

TooShort(name) == name = "x"

\* An identity signs in either with Google or with e-mail and password: what Firebase
\* Auth does with one e-mail address under both providers is not in the sources, so
\* the two kinds of identity are kept apart.
GoogleIdentity(u) == u % 2 = 0

\* setDoc(doc(db, 'users', uid), d) / .doc(uid).set(d): the whole document is written,
\* whether or not one was there.
setUserDoc(u, d) == [x \in DOMAIN users \cup {u} |-> IF x = u THEN d ELSE users[x]]

\* The document handleSignup writes: the same fields without `provider`.
signupDocument(u, w) ==
    [f \in DOMAIN userDocument(u, w, "email") \ {"provider"} |->
        userDocument(u, w, "email")[f]]

\* const { encryptedWallet, ...safeUserData } = userData
safeUserData(userData) ==
    [f \in DOMAIN userData \ {"encryptedWallet"} |-> userData[f]]

\* A client-side flow ends: the toast it shows and what it leaves in the slot.
Toast(r, error, cause) == Respond(r, 0, error, cause, 0)

\* handleGoogleSignIn: await signInWithPopup(auth, googleProvider). Firebase Auth
\* creates the account of the identity on its first sign-in.
GoogleSignIn(r, u, ok) ==
    /\ FreeSlot(r)
    /\ GoogleIdentity(u)
    /\ IF ok
       THEN /\ accounts' = accounts \cup {u}
            /\ req' = [req EXCEPT ![r] = [Idle EXCEPT !.pc = "g_get", !.kind = "google",
                                                      !.user = u]]
            /\ lastResp' = NoResp
       ELSE /\ Toast(r, "Google sign-in failed. Please try again.", "auth")
            /\ UNCHANGED accounts
    /\ UNCHANGED <<files, nextFileId, objects, nextPublicId, users, config>>
    /\ offChain

\* const userDoc = await getDoc(doc(db, 'users', user.uid)); an existing document is
\* fetched into the browser and the user is welcomed back.
GoogleGetDoc(r, dbOk) ==
    /\ req[r].pc = "g_get"
    /\ LET u == req[r].user
       IN  IF ~dbOk THEN Toast(r, "Google sign-in failed. Please try again.", "db")
           ELSE IF u \in DOMAIN users
           THEN /\ lastResp' = [NoResp EXCEPT !.cause = "welcome back", !.user = users[u]]
                /\ req' = [req EXCEPT ![r] = Idle]
           ELSE Goto(r, "g_set")
    /\ UNCHANGED <<files, nextFileId, objects, nextPublicId, users, accounts, config>>
    /\ offChain

\* generateWallet(), encryptWalletInfo() and await setDoc(...) of the branch taken when
\* the document read before did not exist; w is the freshly drawn wallet.
GoogleSetDoc(r, w, dbOk) ==
    /\ req[r].pc = "g_set"
    /\ IF dbOk
       THEN /\ users' = setUserDoc(req[r].user, userDocument(req[r].user, w, "google"))
            /\ Toast(r, "none", "account created")
       ELSE /\ UNCHANGED users
            /\ Toast(r, "Google sign-in failed. Please try again.", "db")
    /\ UNCHANGED <<files, nextFileId, objects, nextPublicId, accounts, config>>
    /\ offChain

\* handleSignup: await createUserWithEmailAndPassword(auth, email, password), which
\* rejects with auth/email-already-in-use when the identity has an account.
EmailSignup(r, u, ok) ==
    /\ FreeSlot(r)
    /\ ~GoogleIdentity(u)
    /\ IF u \in accounts
       THEN /\ Toast(r, "An account with this email already exists.", "auth")
            /\ UNCHANGED accounts
       ELSE IF ~ok
       THEN /\ Toast(r, "Signup failed. Please try again.", "auth")
            /\ UNCHANGED accounts
       ELSE /\ accounts' = accounts \cup {u}
            /\ req' = [req EXCEPT ![r] = [Idle EXCEPT !.pc = "e_set", !.kind = "signup",
                                                      !.user = u]]
            /\ lastResp' = NoResp
    /\ UNCHANGED <<files, nextFileId, objects, nextPublicId, users, config>>
    /\ offChain

\* generateWallet(), encryptWalletInfo() and await setDoc(...) of handleSignup.
EmailSetDoc(r, w, dbOk) ==
    /\ req[r].pc = "e_set"
    /\ IF dbOk
       THEN /\ users' = setUserDoc(req[r].user, signupDocument(req[r].user, w))
            /\ Toast(r, "none", "account created")
       ELSE /\ UNCHANGED users
            /\ Toast(r, "Signup failed. Please try again.", "db")
    /\ UNCHANGED <<files, nextFileId, objects, nextPublicId, accounts, config>>
    /\ offChain

\* POST /api/auth/signup up to its first await: validation, then
\* admin.auth().getUserByEmail(email). An existing account is answered 400; for an
\* unknown e-mail the lookup rejects (caught: 500) or yields nothing and the handler
\* goes on to create the user.
BackendSignup(r, u, valid, rejects) ==
    /\ FreeSlot(r)
    /\ ~GoogleIdentity(u)
    /\ IF ~valid THEN Respond(r, 400, "errors", "validation", 0)
       ELSE IF u \in accounts THEN Respond(r, 400, "User already exists", "exists", 0)
       ELSE IF rejects THEN Respond(r, 500, "Failed to create user", "auth", 0)
       ELSE /\ req' = [req EXCEPT ![r] = [Idle EXCEPT !.pc = "b_create",
                                                      !.kind = "api_signup", !.user = u]]
            /\ lastResp' = NoResp
    /\ UNCHANGED <<files, nextFileId, objects, nextPublicId, users, accounts, config>>
    /\ offChain

\* const userRecord = await admin.auth().createUser({...}); it rejects when the e-mail
\* got an account in the meantime.
BackendCreateUser(r, ok) ==
    /\ req[r].pc = "b_create"
    /\ IF ~ok \/ req[r].user \in accounts
       THEN /\ Respond(r, 500, "Failed to create user", "auth", 0)
            /\ UNCHANGED accounts
       ELSE /\ accounts' = accounts \cup {req[r].user}
            /\ Goto(r, "b_set")
    /\ UNCHANGED <<files, nextFileId, objects, nextPublicId, users, config>>
    /\ offChain

\* generateWallet(), encryptWalletInfo() and await db.collection('users').doc(uid).set(...)
\* then 201 with {uid, email, name, walletAddress}.
BackendSetDoc(r, w, dbOk) ==
    /\ req[r].pc = "b_set"
    /\ LET u == req[r].user
           d == userDocument(u, w, "email")
       IN  IF dbOk
           THEN /\ users' = setUserDoc(u, d)
                /\ lastResp' = [NoResp EXCEPT !.code = 201,
                                   !.user = [uid |-> d.uid, email |-> d.email,
                                             name |-> d.name,
                                             walletAddress |-> d.walletAddress]]
                /\ req' = [req EXCEPT ![r] = Idle]
           ELSE /\ UNCHANGED users
                /\ Respond(r, 500, "Failed to create user", "db", 0)
    /\ UNCHANGED <<files, nextFileId, objects, nextPublicId, accounts, config>>
    /\ offChain

\* PUT /api/auth/profile for the token's uid: updates name (when given) and updatedAt
\* of the existing document; update() of a missing document rejects.
UpdateProfile(u, given, name, dbOk) ==
    /\ u \in accounts
    /\ IF given /\ TooShort(name)
       THEN /\ lastResp' = [NoResp EXCEPT !.code = 400, !.error = "errors",
                                          !.cause = "validation"]
            /\ UNCHANGED users
       ELSE IF ~dbOk \/ u \notin DOMAIN users
       THEN /\ lastResp' = [NoResp EXCEPT !.code = 500,
                                          !.error = "Failed to update profile",
                                          !.cause = "db"]
            /\ UNCHANGED users
       ELSE /\ users' = IF given THEN [users EXCEPT ![u].name = name] ELSE users
            /\ lastResp' = [NoResp EXCEPT !.code = 200]
    /\ UNCHANGED <<files, nextFileId, objects, nextPublicId, accounts, config, req>>
    /\ offChain

\* GET /api/auth/profile: the document without its encryptedWallet.
GetProfile(u, dbOk) ==
    /\ u \in accounts
    /\ lastResp' =
          IF ~dbOk THEN [NoResp EXCEPT !.code = 500, !.error = "Failed to fetch profile",
                                       !.cause = "db"]
          ELSE IF u \notin DOMAIN users
          THEN [NoResp EXCEPT !.code = 404, !.error = "User profile not found",
                              !.cause = "missing"]
          ELSE [NoResp EXCEPT !.code = 200, !.user = safeUserData(users[u])]
    /\ UNCHANGED <<files, nextFileId, objects, nextPublicId, users, accounts, config, req>>
    /\ offChain

\* GET /api/auth/wallet: decrypts the stored wallet and answers its address only.
GetWallet(u, dbOk) ==
    /\ u \in accounts
    /\ lastResp' =
          IF ~dbOk THEN [NoResp EXCEPT !.code = 500,
                                       !.error = "Failed to fetch wallet info",
                                       !.cause = "db"]
          ELSE IF u \notin DOMAIN users
          THEN [NoResp EXCEPT !.code = 404, !.error = "User profile not found",
                              !.cause = "missing"]
          ELSE LET walletInfo == decryptWalletInfo(users[u].encryptedWallet,
                                                   EncryptionSecret)
               IN  IF walletInfo.threw
                   THEN [NoResp EXCEPT !.code = 500,
                                       !.error = "Failed to fetch wallet info",
                                       !.cause = "decrypt"]
                   ELSE [NoResp EXCEPT !.code = 200,
                            !.user = [walletAddress |-> walletInfo.walletInfo.address]]
    /\ UNCHANGED <<files, nextFileId, objects, nextPublicId, users, accounts, config, req>>
    /\ offChain

\* The dashboard's onSnapshot(userDocRef, ...) callback: the browser receives the
\* document as stored and keeps it with setUserProfile(userData).
DashboardSnapshot(u) ==
    /\ u \in accounts
    /\ u \in DOMAIN users
    /\ lastResp' = [NoResp EXCEPT !.cause = "snapshot", !.user = users[u]]
    /\ UNCHANGED <<files, nextFileId, objects, nextPublicId, users, accounts, config, req>>
    /\ offChain

\* ------------------------------------------------ DELETE /api/auth/account

\* An authenticated user asks for the deletion of the account: await
\* admin.auth().deleteUser(uid); a throw is answered by the catch.
StartDeleteAccount(r, u, ok) ==
    /\ FreeSlot(r)
    /\ u \in accounts
    /\ IF ok
       THEN /\ accounts' = accounts \ {u}
            /\ req' = [req EXCEPT ![r] = [Idle EXCEPT !.pc = "a_doc", !.kind = "account",
                                                     !.user = u]]
            /\ lastResp' = NoResp
       ELSE /\ Answer(u, 500, "Failed to delete account", "auth", 0)
            /\ UNCHANGED <<accounts, req>>
    /\ UNCHANGED <<files, nextFileId, objects, nextPublicId, users, config>>
    /\ offChain

\* await db.collection('users').doc(uid).delete()
DeleteAccountDoc(r, dbOk) ==
    /\ req[r].pc = "a_doc"
    /\ LET u == req[r].user
       IN  IF dbOk
           THEN /\ users' = [v \in DOMAIN users \ {u} |-> users[v]]
                /\ Goto(r, "a_query")
           ELSE /\ Answer(u, 500, "Failed to delete account", "db", 0)
                /\ req' = [req EXCEPT ![r] = Idle]
                /\ UNCHANGED users
    /\ UNCHANGED <<files, nextFileId, objects, nextPublicId, accounts, config>>
    /\ offChain

\* An upload through the API by a user whose account exists when the request arrives.
AccountUpload(r, u, buffer, ok) ==
    /\ u \in accounts
    /\ StartUpload(r, u, buffer, "upload", ok)

\* filesSnapshot = await db.collection('files').where('userId', '==', uid).get()
DeleteAccountQuery(r, dbOk) ==
    /\ req[r].pc = "a_query"
    /\ LET u == req[r].user
       IN  IF dbOk
           THEN /\ req' = [req EXCEPT ![r].pc = "a_commit",
                                      ![r].docs = {f \in DOMAIN files : files[f].userId = u}]
                /\ lastResp' = NoResp
           ELSE /\ Answer(u, 500, "Failed to delete account", "db", 0)
                /\ req' = [req EXCEPT ![r] = Idle]
    /\ UNCHANGED <<files, nextFileId, objects, nextPublicId, users, accounts, config>>
    /\ offChain

\* batch.delete(doc.ref) for each document of the snapshot, await batch.commit(), then
\* the answer 'Account deleted successfully'.
DeleteAccountCommit(r, dbOk) ==
    /\ req[r].pc = "a_commit"
    /\ LET u == req[r].user
       IN  IF dbOk
           THEN /\ files' = [g \in DOMAIN files \ req[r].docs |-> files[g]]
                /\ Answer(u, 200, "Account deleted successfully", "none", 0)
           ELSE /\ Answer(u, 500, "Failed to delete account", "db", 0)
                /\ UNCHANGED files
    /\ req' = [req EXCEPT ![r] = Idle]
    /\ UNCHANGED <<nextFileId, objects, nextPublicId, users, accounts, config>>
    /\ offChain

\* ------------------------------------------ POST /api/verification/verify

\* body('hash').isLength({ min: 64, max: 64 })
HashLength == 64

isLength(str, min, max) == Len(str) >= min /\ Len(str) <= max

\* What a caller may send as `hash`: a stored hash as the upload route produced it,
\* or its 64 hex digits without the prefix.
VerifyInputs ==
    {fileHashString(h) : h \in Bytes32} \cup
    {SubSeq(fileHashString(h), 3, Len(fileHashString(h))) : h \in Bytes32}

verifyHashOnBlockchain_anyFormat(hash) ==
    LET digits == IF isBytes32String(hash) THEN SubSeq(hash, 3, Len(hash)) ELSE hash
    IN  IF config.backendContract /\ isBytes32String(<<"0", "x">> \o digits)
        THEN verifyHash(valueOfHex(digits))
        ELSE [reverted |-> FALSE, exists |-> FALSE, submitter |-> ZeroAddress,
              timestamp |-> 0]

\* verifyHashOnBlockchain(hash): without a contract, or when contract.verifyHash(hash)
\* throws (ethers refuses an argument that is not a bytes32 hex string), the answer is
\* {exists: false}; otherwise it is the contract's.
verifyHashOnBlockchain(hash) ==
    IF config.backendContract /\ isBytes32String(hash)
    THEN verifyHash(valueOfHex(SubSeq(hash, 3, Len(hash))))
    ELSE [reverted |-> FALSE, exists |-> FALSE, submitter |-> ZeroAddress, timestamp |-> 0]

\* fileMetadata of the single-hash route: null (here <<>>) when the files query is empty,
\* else fields of the first document, userId among them.
verifyFileMetadata(hash) ==
    LET fileDoc == {f \in DOMAIN files : storedFileHash[files[f].fileHash] = hash}
    IN  IF fileDoc = {} THEN <<>>
        ELSE LET fileData == files[CHOOSE f \in fileDoc : TRUE]
             IN  [fileName |-> fileData.fileName, userId |-> fileData.userId]

\* The `verification` object of the single-hash route's 200 answer.
verification(hash, rpcOk) ==
    LET blockchainResult ==
            IF rpcOk THEN verifyHashOnBlockchain(hash)
            ELSE [reverted |-> FALSE, exists |-> FALSE,
                  submitter |-> ZeroAddress, timestamp |-> 0]
    IN  [hash |-> hash, exists |-> blockchainResult.exists,
         submitter |-> blockchainResult.submitter,
         timestamp |-> blockchainResult.timestamp,
         fileMetadata |-> verifyFileMetadata(hash)]

\* The answer of the route: 400 on a hash that is not 64 characters long, else the chain
\* lookup, the files query where('fileHash', '==', hash).limit(1) and the 200 answer, or
\* the 500 of the outer catch when the query throws.
verifyResponse(hash, rpcOk, dbOk) ==
    IF ~isLength(hash, HashLength, HashLength)
    THEN [NoResp EXCEPT !.code = 400, !.error = "Hash must be 64 characters long",
                        !.cause = "validation", !.hash = hash]
    ELSE LET blockchainResult ==
                 IF rpcOk THEN verifyHashOnBlockchain(hash)
                 ELSE [reverted |-> FALSE, exists |-> FALSE,
                       submitter |-> ZeroAddress, timestamp |-> 0]
             fileDoc == {f \in DOMAIN files : storedFileHash[files[f].fileHash] = hash}
         IN  IF ~dbOk
             THEN [NoResp EXCEPT !.code = 500, !.error = "Failed to verify hash",
                                 !.cause = "db"]
             ELSE [NoResp EXCEPT !.code = 200, !.hash = hash,
                      !.batch = [verification |-> verification(hash, rpcOk)],
                      !.cause = IF blockchainResult.exists THEN "exists" ELSE "not found",
                      !.fileId = IF fileDoc = {} THEN 0 ELSE CHOOSE f \in fileDoc : TRUE]

\* The whole route; lastCall holds the contract call when one is really made.
PostVerify(hash, rpcOk, dbOk) ==
    /\ lastResp' = verifyResponse(hash, rpcOk, dbOk)
    /\ lastCall' = IF /\ isLength(hash, HashLength, HashLength)
                      /\ rpcOk /\ config.backendContract /\ isBytes32String(hash)
                   THEN [fn |-> "verifyHash",
                         hash |-> valueOfHex(SubSeq(hash, 3, Len(hash))),
                         result |-> verifyHash(valueOfHex(SubSeq(hash, 3, Len(hash))))]
                   ELSE NoCall
    /\ noTransaction
    /\ UNCHANGED <<blockTimestamp, files, nextFileId, objects, nextPublicId, users,
                   accounts, config, req>>

\* ------------------------------------ POST /api/verification/verify-batch

\* What a caller may put into `hashes`: 64 hex digits, or a hash with its prefix.
BatchItems ==
    {SubSeq(fileHashString(1), 3, Len(fileHashString(1))), fileHashString(1)}

Batches == UNION {[1..n -> BatchItems] : n \in 0..MaxBatch}

\* fileMetadata of one batch entry: as in the single-hash route, without userId.
batchFileMetadata(hash) ==
    LET fileDoc == {f \in DOMAIN files : storedFileHash[files[f].fileHash] = hash}
    IN  IF fileDoc = {} THEN <<>>
        ELSE LET fileData == files[CHOOSE f \in fileDoc : TRUE]
             IN  [fileName |-> fileData.fileName]

\* One turn of the loop: the chain lookup and the files query of one hash; a rejected
\* query is caught inside the loop and gives the error-tagged entry.
batchResult(hash, dbOk) ==
    IF dbOk
    THEN LET blockchainResult == verifyHashOnBlockchain(hash)
         IN  [hash |-> hash, exists |-> blockchainResult.exists,
              submitter |-> blockchainResult.submitter,
              timestamp |-> blockchainResult.timestamp,
              fileMetadata |-> batchFileMetadata(hash), error |-> FALSE]
    ELSE [hash |-> hash, exists |-> FALSE, error |-> TRUE]

IsVerified(res) == res.exists
IsNotFound(res) == ~res.exists /\ ~res.error
IsError(res) == res.error

\* summary: {total, verified, notFound, errors} over the results.
batchSummary_overlap(results) ==
    [total    |-> Len(results),
     verified |-> Cardinality({i \in DOMAIN results : IsVerified(results[i])}),
     notFound |-> Cardinality({i \in DOMAIN results : ~results[i].exists}),
     errors   |-> Cardinality({i \in DOMAIN results : IsError(results[i])})]

batchSummary(results) ==
    [total    |-> Len(results),
     verified |-> Cardinality({i \in DOMAIN results : IsVerified(results[i])}),
     notFound |-> Cardinality({i \in DOMAIN results : IsNotFound(results[i])}),
     errors   |-> Cardinality({i \in DOMAIN results : IsError(results[i])})]

\* The validators of the route: body('hashes.*').isLength({ min: 64, max: 64 }).
batchValid(hashes) == \A i \in DOMAIN hashes : isLength(hashes[i], HashLength, HashLength)

\* The whole route: 400 when validation reports any item, else one result per item, in
\* order, and the summary. failing is the set of turns whose files query rejects.
PostVerifyBatch(hashes, failing) ==
    /\ lastResp' =
          IF ~batchValid(hashes)
          THEN [NoResp EXCEPT !.code = 400,
                              !.error = "Each hash must be 64 characters long",
                              !.cause = "validation"]
          ELSE LET results == [i \in DOMAIN hashes |->
                                  batchResult(hashes[i], i \notin failing)]
               IN  [NoResp EXCEPT !.code = 200,
                       !.batch = [results |-> results, summary |-> batchSummary(results)]]
    /\ lastCall' = NoCall
    /\ noTransaction
    /\ UNCHANGED <<blockTimestamp, files, nextFileId, objects, nextPublicId, users,
                   accounts, config, req>>

\* ------------------------------------------------------ JavaScript numbers

\* The confidences are JavaScript numbers, IEEE 754 doubles. Every double the module
\* computes is a multiple of 2^-56 below 2; it is kept as hi * Limb + lo in units of
\* 2^-56, with 0 <= lo < Limb and hi negative for a negative number.
Limb == 2^28

norm(hi, lo) == [hi |-> hi + (lo \div Limb), lo |-> lo % Limb]

neg(a) == IF a.lo = 0 THEN [hi |-> -a.hi, lo |-> 0]
          ELSE [hi |-> -a.hi - 1, lo |-> Limb - a.lo]

\* The spacing of the doubles around a >= 0, in units of 2^-56: 53 significant bits.
ulp(a) ==
    IF a.hi >= Limb THEN 16
    ELSE IF a.hi >= Limb \div 2 THEN 8
    ELSE IF a.hi >= Limb \div 4 THEN 4
    ELSE IF a.hi >= Limb \div 8 THEN 2
    ELSE 1

\* Round to nearest, ties to even: the rounding of every arithmetic operation.
roundNonNegative(a) ==
    LET g   == ulp(a)
        q   == a.lo \div g
        rem == a.lo % g
        up  == 2 * rem > g \/ (2 * rem = g /\ q % 2 = 1)
    IN  norm(a.hi, (IF up THEN q + 1 ELSE q) * g)

roundDouble(a) == IF a.hi < 0 THEN neg(roundNonNegative(neg(a))) ELSE roundNonNegative(a)

\* a - b
minus(a, b) == roundDouble(norm(a.hi - b.hi, a.lo - b.lo))

\* n * a for a small count n
times(n, a) == roundDouble(norm(n * a.hi, n * a.lo))

\* a < b
less(a, b) == a.hi < b.hi \/ (a.hi = b.hi /\ a.lo < b.lo)

\* Math.max(a, b)
MathMax(a, b) == IF less(a, b) THEN b ELSE a

\* The doubles of the decimal literals of the module.
Lit00 == [hi |-> 0, lo |-> 0]
Lit01 == [hi |-> 26843545, lo |-> 161061274]
Lit02 == [hi |-> 53687091, lo |-> 53687092]
Lit03 == [hi |-> 80530636, lo |-> 214748364]
Lit04 == [hi |-> 107374182, lo |-> 107374184]
Lit05 == [hi |-> 134217728, lo |-> 0]
Lit06 == [hi |-> 161061273, lo |-> 161061272]
Lit07 == [hi |-> 187904819, lo |-> 53687088]
Lit08 == [hi |-> 214748364, lo |-> 214748368]
Lit09 == [hi |-> 241591910, lo |-> 107374184]

\* ---------------------------------------------------- tamper heuristics

\* What exifr.parse(buffer) gives for an image: it throws, or finds nothing, or gives
\* the tags. Of the tags the checks read: Software (absent, a camera's firmware, an
\* editor of the list), DateTimeOriginal, CreateDate, ModifyDate (absent, earlier or
\* not earlier than DateTimeOriginal), the GPS pair (absent, in range, out of range).
ExifData ==
    [Software : {"none", "camera", "photoshop"},
     DateTimeOriginal : BOOLEAN,
     CreateDate : BOOLEAN,
     ModifyDate : {"none", "earlier", "later"},
     GPS : {"none", "valid", "invalid"}]

ExifParse == [outcome : {"threw", "empty"}] \cup [outcome : {"tags"}, exifData : ExifData]

editingSoftware == {"photoshop", "gimp", "paint", "canva", "figma"}

\* The four indicator checks in their order; each takes its penalty from the
\* confidence the checks before it left.
afterSoftware(exifData) ==
    IF exifData.Software \in editingSoftware THEN minus(Lit09, Lit02) ELSE Lit09

afterCreation(exifData) ==
    IF ~exifData.DateTimeOriginal /\ ~exifData.CreateDate
    THEN minus(afterSoftware(exifData), Lit03)
    ELSE afterSoftware(exifData)

afterModification(exifData) ==
    IF exifData.DateTimeOriginal /\ exifData.ModifyDate = "earlier"
    THEN minus(afterCreation(exifData), Lit04)
    ELSE afterCreation(exifData)

afterGPS(exifData) ==
    IF exifData.GPS = "invalid"
    THEN minus(afterModification(exifData), Lit03)
    ELSE afterModification(exifData)

analyzeImageMetadata(parse) ==
    IF parse.outcome = "threw"
    THEN [status |-> "failed", details |-> "Failed to analyze image metadata",
          confidence |-> Lit00]
    ELSE IF parse.outcome = "empty"
    THEN [status |-> "suspicious", details |-> "No EXIF metadata found",
          confidence |-> Lit07]
    ELSE LET exifData   == parse.exifData
             confidence == afterGPS(exifData)
         IN  [status     |-> IF less(confidence, Lit08) THEN "suspicious" ELSE "clean",
              details    |-> IF less(confidence, Lit06)
                             THEN "Suspicious indicators found"
                             ELSE IF less(confidence, Lit08)
                             THEN "Some suspicious indicators detected"
                             ELSE "Image appears to be authentic",
              confidence |-> confidence,
              metadata   |-> [software |-> exifData.Software,
                              dateTimeOriginal |-> exifData.DateTimeOriginal,
                              modifyDate |-> exifData.ModifyDate,
                              gps |-> exifData.GPS]]

\* The lists the PDF and the document scans look for.
suspiciousTerms == 8
suspiciousPatterns == 5

\* A PDF: whether its first bytes are '%PDF-' and how many of the terms its first
\* 1000 bytes hold.
analyzePDFMetadata(buffer) ==
    IF buffer.threw
    THEN [status |-> "failed", details |-> "Failed to analyze PDF metadata",
          confidence |-> Lit00]
    ELSE IF ~buffer.header
    THEN [status |-> "suspicious", details |-> "Invalid PDF format", confidence |-> Lit00]
    ELSE [status     |-> "clean",
          details    |-> IF buffer.foundTerms > 0
                         THEN "PDF contains editing software indicators"
                         ELSE "PDF appears to be authentic",
          confidence |-> IF buffer.foundTerms > 0
                         THEN MathMax(Lit05, minus(Lit08, times(buffer.foundTerms, Lit01)))
                         ELSE Lit08,
          metadata   |-> [creator |-> "null", producer |-> "null"]]

\* buffer.length < 100
SmallFile == 100

\* Any other document: its length and how many of the office-tool names its first 2000
\* bytes hold. The size check writes its verdict first; the scan runs after it on
\* every file and, when it finds a name, writes details and confidence again.
analyzeDocumentMetadata(buffer) ==
    IF buffer.threw
    THEN [status |-> "failed", details |-> "Failed to analyze document metadata",
          confidence |-> Lit00]
    ELSE LET small == buffer.length < SmallFile
         IN  [status     |-> IF small THEN "suspicious" ELSE "clean",
              details    |-> IF buffer.foundPatterns > 0
                             THEN "Document was created with"
                             ELSE IF small THEN "File size is unusually small"
                             ELSE "Document appears to be authentic",
              confidence |-> IF buffer.foundPatterns > 0
                             THEN MathMax(Lit05,
                                          minus(Lit07, times(buffer.foundPatterns, Lit01)))
                             ELSE IF small THEN Lit03
                             ELSE Lit07,
              metadata   |-> [fileType |-> buffer.mimetype, fileName |-> buffer.originalname,
                              fileSize |-> buffer.length]]

\* The names uploads come under.
OriginalNames == {"scan", "copy"}

\* The uploads of POST /analyze. Reading a prefix of a memory buffer does not throw,
\* parsing EXIF data of arbitrary bytes does.
ImageFiles ==
    [mimetype : {"image/jpeg"}, originalname : OriginalNames, length : {SmallFile},
     parse : ExifParse]

PDFFiles ==
    [mimetype : {"application/pdf"}, originalname : OriginalNames, length : {SmallFile},
     threw : {FALSE},
     header : BOOLEAN, foundTerms : 0..suspiciousTerms]

DocumentFiles ==
    [mimetype : {"application/msword"}, originalname : OriginalNames,
     length : {SmallFile - 1, SmallFile}, threw : {FALSE}, foundPatterns : 0..suspiciousPatterns]

AnalyzeFiles == [mimetype : {"none"}] \cup ImageFiles \cup PDFFiles \cup DocumentFiles

analyzeResponse(file) ==
    IF file.mimetype = "none"
    THEN [NoResp EXCEPT !.code = 400, !.error = "No file provided"]
    ELSE LET analysis == IF file.mimetype = "image/jpeg"
                         THEN analyzeImageMetadata(file.parse)
                         ELSE IF file.mimetype = "application/pdf"
                         THEN analyzePDFMetadata(file)
                         ELSE analyzeDocumentMetadata(file)
             fileInfo == [name |-> file.originalname, type |-> file.mimetype,
                          size |-> file.length]
         IN  [NoResp EXCEPT !.code = 200,
                            !.batch = [analysis |-> analysis, fileInfo |-> fileInfo]]

\* POST /analyze
PostAnalyze(file) ==
    /\ lastResp' = analyzeResponse(file)
    /\ lastCall' = NoCall
    /\ noTransaction
    /\ UNCHANGED <<blockTimestamp, files, nextFileId, objects, nextPublicId, users,
                   accounts, config, req>>

\* ------------------------------------------------------------ specifications

\* The contract right after deployment, in a block with a positive timestamp.
RegistryDeployed ==
    /\ fileVerifications = [h \in Bytes32 |-> EmptyVerification]
    /\ allHashes = <<>>
    /\ events = <<>>
    /\ blockTimestamp = 1
    /\ lastTx = NoTx
    /\ lastCall = NoCall

\* The service with every user signed up, no file uploaded and no request running.
ServiceDeployed ==
    /\ files = <<>>
    /\ nextFileId = 1
    /\ objects = {}
    /\ nextPublicId = 1
    /\ users = [u \in Users |-> userDocument(u, u, "email")]
    /\ accounts = Users
    /\ req = [r \in Reqs |-> Idle]
    /\ lastResp = NoResp

InitRegistry ==
    /\ RegistryDeployed
    /\ ServiceDeployed
    /\ config = [backendContract |-> TRUE, frontendContract |-> TRUE]

NextRegistry ==
    \/ \E sender \in Accounts, _hash \in Bytes32 : SubmitHash(sender, _hash)
    \/ \E _hash \in Bytes32 : VerifyHash(_hash)
    \/ GetTotalHashes
    \/ GetAllHashes
    \/ \E _submitter \in Addresses : GetHashesBySubmitter(_submitter)
    \/ \E _submitter \in Addresses : HasSubmittedHashes(_submitter)
    \/ \E _count \in Counts : GetRecentHashes(_count)
    \/ NextBlock

SpecRegistry == InitRegistry /\ [][NextRegistry]_vars

Init ==
    /\ RegistryDeployed
    /\ ServiceDeployed
    /\ config \in [backendContract : BOOLEAN, frontendContract : BOOLEAN]

Next ==
    \/ \E r \in Reqs, u \in Users, buffer \in Contents, kind \in {"upload", "onDrop"},
          ok \in BOOLEAN : StartUpload(r, u, buffer, kind, ok)
    \/ \E r \in Reqs, dbOk \in BOOLEAN : UploadCheck(r, dbOk)
    \/ \E r \in Reqs, dbOk \in BOOLEAN : UploadUser(r, dbOk)
    \/ \E r \in Reqs, dbOk \in BOOLEAN : UploadAdd(r, dbOk)
    \/ \E r \in Reqs, dbOk \in BOOLEAN : ClientUser(r, dbOk)
    \/ \E r \in Reqs, rpc \in RpcOutcomes, threw \in BOOLEAN : ClientSubmit(r, rpc, threw)
    \/ \E r \in Reqs, dbOk \in BOOLEAN : ClientUpdate(r, dbOk)
    \/ \E r \in Reqs, u \in Users, f \in FileIds, dbOk \in BOOLEAN : StartSubmit(r, u, f, dbOk)
    \/ \E r \in Reqs, dbOk \in BOOLEAN : SubmitUser(r, dbOk)
    \/ \E r \in Reqs, rpc \in RpcOutcomes, threw \in BOOLEAN : SubmitChain(r, rpc, threw)
    \/ \E r \in Reqs, dbOk \in BOOLEAN : SubmitMarkFailed(r, dbOk)
    \/ \E r \in Reqs, dbOk \in BOOLEAN : SubmitMarkVerified(r, dbOk)

Spec == Init /\ [][Next]_vars

\* No account yet: the sign-up and sign-in pages and the auth routes at work.
InitAuth ==
    /\ RegistryDeployed
    /\ files = <<>>
    /\ nextFileId = 1
    /\ objects = {}
    /\ nextPublicId = 1
    /\ users = <<>>
    /\ accounts = {}
    /\ req = [r \in Reqs |-> Idle]
    /\ lastResp = NoResp
    /\ config = [backendContract |-> TRUE, frontendContract |-> TRUE]

NextAuth ==
    \/ \E r \in Reqs, u \in Users, ok \in BOOLEAN : GoogleSignIn(r, u, ok)
    \/ \E r \in Reqs, dbOk \in BOOLEAN : GoogleGetDoc(r, dbOk)
    \/ \E r \in Reqs, w \in Accounts, dbOk \in BOOLEAN : GoogleSetDoc(r, w, dbOk)
    \/ \E r \in Reqs, u \in Users, ok \in BOOLEAN : EmailSignup(r, u, ok)
    \/ \E r \in Reqs, w \in Accounts, dbOk \in BOOLEAN : EmailSetDoc(r, w, dbOk)
    \/ \E r \in Reqs, u \in Users, valid, rejects \in BOOLEAN :
          BackendSignup(r, u, valid, rejects)
    \/ \E r \in Reqs, ok \in BOOLEAN : BackendCreateUser(r, ok)
    \/ \E r \in Reqs, w \in Accounts, dbOk \in BOOLEAN : BackendSetDoc(r, w, dbOk)
    \/ \E u \in Users, given \in BOOLEAN, name \in Names, dbOk \in BOOLEAN :
          UpdateProfile(u, given, name, dbOk)
    \/ \E u \in Users, dbOk \in BOOLEAN : GetProfile(u, dbOk)
    \/ \E u \in Users, dbOk \in BOOLEAN : GetWallet(u, dbOk)
    \/ \E u \in Users : DashboardSnapshot(u)

SpecAuth == InitAuth /\ [][NextAuth]_vars

\* Uploads through the API and public verification requests.
NextHash ==
    \/ \E r \in Reqs, u \in Users, buffer \in Contents, ok \in BOOLEAN :
          StartUpload(r, u, buffer, "upload", ok)
    \/ \E r \in Reqs, dbOk \in BOOLEAN : UploadCheck(r, dbOk)
    \/ \E r \in Reqs, dbOk \in BOOLEAN : UploadUser(r, dbOk)
    \/ \E r \in Reqs, dbOk \in BOOLEAN : UploadAdd(r, dbOk)
    \/ \E hash \in VerifyInputs, rpcOk, dbOk \in BOOLEAN : PostVerify(hash, rpcOk, dbOk)
    \/ \E hashes \in Batches, failing \in SUBSET (1..MaxBatch) :
          PostVerifyBatch(hashes, failing)

SpecHash == Init /\ [][NextHash]_vars

\* The file routes of the backend (upload, read, rename, delete, download, submit) with
\* no dashboard in play, MaxFileReqs requests at a time.
InitFiles ==
    /\ RegistryDeployed
    /\ ServiceDeployed
    /\ config = [backendContract |-> TRUE, frontendContract |-> TRUE]

NextFiles ==
    \/ \E r \in FileReqs, u \in Users, buffer \in Contents, ok \in BOOLEAN :
          StartUpload(r, u, buffer, "upload", ok)
    \/ \E r \in FileReqs, dbOk \in BOOLEAN : UploadCheck(r, dbOk)
    \/ \E r \in FileReqs, dbOk \in BOOLEAN : UploadUser(r, dbOk)
    \/ \E r \in FileReqs, dbOk \in BOOLEAN : UploadAdd(r, dbOk)
    \/ \E r \in FileReqs, u \in Users, f \in FileIds, dbOk \in BOOLEAN : GetFile(r, u, f, dbOk)
    \/ \E r \in FileReqs, u \in Users, f \in FileIds, dbOk \in BOOLEAN :
          DownloadUrl(r, u, f, dbOk)
    \/ \E r \in FileReqs, u \in Users, f \in FileIds, given \in BOOLEAN,
          fileName \in FileNames, dbOk \in BOOLEAN :
          StartUpdate(r, u, f, given, fileName, dbOk)
    \/ \E r \in FileReqs, dbOk \in BOOLEAN : UpdateDoc(r, dbOk)
    \/ \E r \in FileReqs, u \in Users, f \in FileIds, dbOk \in BOOLEAN : StartDelete(r, u, f, dbOk)
    \/ \E r \in FileReqs, ok \in BOOLEAN : DeleteCloud(r, ok)
    \/ \E r \in FileReqs, dbOk \in BOOLEAN : DeleteDoc(r, dbOk)
    \/ \E r \in FileReqs, u \in Users, f \in FileIds, dbOk \in BOOLEAN : StartSubmit(r, u, f, dbOk)
    \/ \E r \in FileReqs, dbOk \in BOOLEAN : SubmitUser(r, dbOk)
    \/ \E r \in FileReqs, rpc \in RpcOutcomes, threw \in BOOLEAN : SubmitChain(r, rpc, threw)
    \/ \E r \in FileReqs, dbOk \in BOOLEAN : SubmitMarkFailed(r, dbOk)
    \/ \E r \in FileReqs, dbOk \in BOOLEAN : SubmitMarkVerified(r, dbOk)

SpecFiles == InitFiles /\ [][NextFiles]_vars

\* Accounts being deleted while their owners upload: a user who holds a token of an
\* existing account uploads through the API or asks for the deletion of the account.
NextAccount ==
    \/ \E r \in Reqs, u \in Users, buffer \in Contents, ok \in BOOLEAN :
          AccountUpload(r, u, buffer, ok)
    \/ \E r \in Reqs, dbOk \in BOOLEAN : UploadCheck(r, dbOk)
    \/ \E r \in Reqs, dbOk \in BOOLEAN : UploadUser(r, dbOk)
    \/ \E r \in Reqs, dbOk \in BOOLEAN : UploadAdd(r, dbOk)
    \/ \E r \in Reqs, u \in Users, ok \in BOOLEAN : StartDeleteAccount(r, u, ok)
    \/ \E r \in Reqs, dbOk \in BOOLEAN : DeleteAccountDoc(r, dbOk)
    \/ \E r \in Reqs, dbOk \in BOOLEAN : DeleteAccountQuery(r, dbOk)
    \/ \E r \in Reqs, dbOk \in BOOLEAN : DeleteAccountCommit(r, dbOk)

SpecAccount == InitFiles /\ [][NextAccount]_vars

\* The upload and submit routes alone, no dashboard: every verified or failed status
\* is written by a submit request.
NextSubmit ==
    \/ \E r \in Reqs, u \in Users, buffer \in Contents, ok \in BOOLEAN :
          StartUpload(r, u, buffer, "upload", ok)
    \/ \E r \in Reqs, dbOk \in BOOLEAN : UploadCheck(r, dbOk)
    \/ \E r \in Reqs, dbOk \in BOOLEAN : UploadUser(r, dbOk)
    \/ \E r \in Reqs, dbOk \in BOOLEAN : UploadAdd(r, dbOk)
    \/ \E r \in Reqs, u \in Users, f \in FileIds, dbOk \in BOOLEAN : StartSubmit(r, u, f, dbOk)
    \/ \E r \in Reqs, dbOk \in BOOLEAN : SubmitUser(r, dbOk)
    \/ \E r \in Reqs, rpc \in RpcOutcomes, threw \in BOOLEAN : SubmitChain(r, rpc, threw)
    \/ \E r \in Reqs, dbOk \in BOOLEAN : SubmitMarkFailed(r, dbOk)
    \/ \E r \in Reqs, dbOk \in BOOLEAN : SubmitMarkVerified(r, dbOk)

SpecSubmit == Init /\ [][NextSubmit]_vars

\* The four handlers of the termination claim, one request of the upload and submit
\* routes at a time, and the two verification routes, which answer in one step.
NextHandlers ==
    \/ \E r \in FileReqs, u \in Users, buffer \in Contents, ok \in BOOLEAN :
          StartUpload(r, u, buffer, "upload", ok)
    \/ \E r \in FileReqs, dbOk \in BOOLEAN : UploadCheck(r, dbOk)
    \/ \E r \in FileReqs, dbOk \in BOOLEAN : UploadUser(r, dbOk)
    \/ \E r \in FileReqs, dbOk \in BOOLEAN : UploadAdd(r, dbOk)
    \/ \E r \in FileReqs, u \in Users, f \in FileIds, dbOk \in BOOLEAN : StartSubmit(r, u, f, dbOk)
    \/ \E r \in FileReqs, dbOk \in BOOLEAN : SubmitUser(r, dbOk)
    \/ \E r \in FileReqs, rpc \in RpcOutcomes, threw \in BOOLEAN : SubmitChain(r, rpc, threw)
    \/ \E r \in FileReqs, dbOk \in BOOLEAN : SubmitMarkFailed(r, dbOk)
    \/ \E r \in FileReqs, dbOk \in BOOLEAN : SubmitMarkVerified(r, dbOk)
    \/ \E hash \in BatchItems, rpcOk, dbOk \in BOOLEAN : PostVerify(hash, rpcOk, dbOk)
    \/ \E hashes \in Batches, failing \in SUBSET (1..MaxBatch) :
          PostVerifyBatch(hashes, failing)

\* The await the handler in slot r is suspended at settles: the call returns or throws.
Settle(r) ==
    \/ \E dbOk \in BOOLEAN : UploadCheck(r, dbOk)
    \/ \E dbOk \in BOOLEAN : UploadUser(r, dbOk)
    \/ \E dbOk \in BOOLEAN : UploadAdd(r, dbOk)
    \/ \E dbOk \in BOOLEAN : SubmitUser(r, dbOk)
    \/ \E rpc \in RpcOutcomes, threw \in BOOLEAN : SubmitChain(r, rpc, threw)
    \/ \E dbOk \in BOOLEAN : SubmitMarkFailed(r, dbOk)
    \/ \E dbOk \in BOOLEAN : SubmitMarkVerified(r, dbOk)

\* Every outbound call returns or throws: a suspended handler is resumed.
SpecHandlers ==
    Init /\ [][NextHandlers]_vars /\ \A r \in FileReqs : WF_vars(Settle(r))

\* The tamper heuristics alone: every upload POST /analyze can receive.
NextTamper == \E file \in AnalyzeFiles : PostAnalyze(file)

SpecTamper == InitFiles /\ [][NextTamper]_vars

\* Verification at work: anyone submits to and queries the contract while files are
\* uploaded and the public verify route is called.
NextVerify ==
    \/ \E sender \in Accounts, _hash \in Bytes32 : SubmitHash(sender, _hash)
    \/ \E _hash \in Bytes32 : VerifyHash(_hash)
    \/ \E r \in FileReqs, u \in Users, buffer \in Contents, ok \in BOOLEAN :
          StartUpload(r, u, buffer, "upload", ok)
    \/ \E r \in FileReqs, dbOk \in BOOLEAN : UploadCheck(r, dbOk)
    \/ \E r \in FileReqs, dbOk \in BOOLEAN : UploadUser(r, dbOk)
    \/ \E r \in FileReqs, dbOk \in BOOLEAN : UploadAdd(r, dbOk)
    \/ \E hash \in VerifyInputs, rpcOk, dbOk \in BOOLEAN : PostVerify(hash, rpcOk, dbOk)

SpecVerify == InitFiles /\ [][NextVerify]_vars

\* ================================================================ claims

Submitted(h) == \E i \in 1..Len(events) : events[i].hash = h

\* C1: submitHash(h), sent by any account, succeeds if and only if h is not the zero
\* value and h is not already present; a rejected call (also a second submission by
\* the original or by another submitter) leaves the mapping and the list unchanged,
\* and a successful one makes h present and appends it to the list.
C1_SubmitSucceedsIffFreshNonZero ==
    [][lastTx' # NoTx =>
        LET t == lastTx'
        IN  /\ (t.status = "ok") <=>
                  (t.hash # ZeroHash /\ ~fileVerifications[t.hash].exists)
            /\ t.status # "ok" =>
                  (fileVerifications' = fileVerifications /\ allHashes' = allHashes)
            /\ t.status = "ok" =>
                  (fileVerifications'[t.hash].exists /\ allHashes' = Append(allHashes, t.hash))
      ]_vars

\* A second submission of a present hash by a different account was rejected.
C1_Witness ==
    /\ lastTx.status = "Hash already exists"
    /\ blockTimestamp > fileVerifications[lastTx.hash].timestamp
    /\ fileVerifications[lastTx.hash].exists
    /\ fileVerifications[lastTx.hash].submitter # lastTx.sender

\* C2: registry entries are append-only and immutable: a present entry keeps its
\* submitter, timestamp and existence flag in every step, and the list of hashes
\* only grows at its end.
C2_EntriesImmutable ==
    [][ /\ \A h \in Bytes32 :
              fileVerifications[h].exists => fileVerifications'[h] = fileVerifications[h]
        /\ Len(allHashes') >= Len(allHashes)
        /\ SubSeq(allHashes', 1, Len(allHashes)) = allHashes
      ]_vars

\* Another account has just added a second entry, in a later block than the first
\* entry, which is still there.
C2_Witness ==
    /\ Len(allHashes) >= 2
    /\ lastTx.status = "ok"
    /\ lastTx.sender # fileVerifications[allHashes[1]].submitter
    /\ blockTimestamp > fileVerifications[allHashes[1]].timestamp

\* C3: after a successful submitHash(h) by account a at time t (the HashSubmitted
\* event), verifyHash(h) returns (true, a, t) with t > 0, now and after any later
\* submission attempts; no hash has two successful submissions.
C3_VerifyReturnsFirstSubmitter ==
    /\ \A i \in 1..Len(events) :
          /\ verifyHash(events[i].hash) =
                [reverted |-> FALSE, exists |-> TRUE,
                 submitter |-> events[i].submitter, timestamp |-> events[i].timestamp]
          /\ events[i].timestamp > 0
    /\ \A i, j \in 1..Len(events) : events[i].hash = events[j].hash => i = j

\* verifyHash was called on a present hash in a later block, after another account
\* made a submission of its own.
C3_Witness ==
    /\ lastCall.fn = "verifyHash"
    /\ lastCall.result.exists
    /\ lastCall.result.timestamp < blockTimestamp
    /\ \E i \in 1..Len(events) :
          /\ events[i].submitter # lastCall.result.submitter
          /\ events[i].timestamp > lastCall.result.timestamp

\* C4: verifyHash is total: for every hash that was never submitted it returns
\* (false, address(0), 0), and no call of it reverts in any registry state.
C4_VerifyTotal ==
    /\ \A h \in Bytes32 :
          ~Submitted(h) =>
              verifyHash(h) = [reverted |-> FALSE, exists |-> FALSE,
                               submitter |-> ZeroAddress, timestamp |-> 0]
    /\ \A h \in Bytes32 : ~verifyHash(h).reverted
    /\ lastCall.fn = "verifyHash" => ~lastCall.result.reverted

\* verifyHash was called on an unsubmitted non-zero hash of a non-empty registry.
C4_Witness ==
    /\ lastCall.fn = "verifyHash"
    /\ lastCall.hash # ZeroHash
    /\ ~Submitted(lastCall.hash)
    /\ ~lastCall.result.exists
    /\ Len(allHashes) > 0

\* C5: in every reachable state of the file metadata store no two FileRecords have
\* the same owning user and the same content hash, also under concurrent uploads
\* of identical content by one user.
C5_OwnerHashUnique ==
    \A f, g \in DOMAIN files :
        (files[f].userId = files[g].userId /\ files[f].fileHash = files[g].fileHash)
            => f = g

\* C6: a FileRecord's verification status only ever changes pending -> verified or
\* pending -> failed; no step moves a record out of failed or out of verified.
C6_StatusOnlyLeavesPending ==
    [][\A f \in DOMAIN files :
          (f \in DOMAIN files' /\
           files'[f].verificationStatus # files[f].verificationStatus)
              => /\ files[f].verificationStatus = "pending"
                 /\ files'[f].verificationStatus \in {"verified", "failed"}
      ]_vars

\* C7: when a flow (the backend submit route or the dashboard flow) ends by reporting
\* that the on-chain submission of an uploaded file failed, the FileRecord still
\* exists and its status is failed.
C7_FailedSubmissionMarksFailed ==
    lastResp.error \in {"Blockchain submission failed",
                        "File uploaded but blockchain submission failed"} =>
        /\ lastResp.fileId \in DOMAIN files
        /\ files[lastResp.fileId].verificationStatus = "failed"

\* C8: once the document of a user exists, no step changes its walletAddress or its
\* encryptedWallet, whatever the interleaving of email signup, Google sign-in and
\* profile update requests.
C8_WalletImmutable ==
    [][\A u \in DOMAIN users :
          u \in DOMAIN users' =>
              /\ users'[u].walletAddress = users[u].walletAddress
              /\ users'[u].encryptedWallet = users[u].encryptedWallet ]_vars

\* C9: no user record handed to a client (GET /profile, GET /wallet, the sign-in page's
\* and the dashboard's own reads of the user document) carries the encryptedWallet field.
C9_EncryptedWalletNeverDelivered ==
    "encryptedWallet" \notin DOMAIN lastResp.user

\* C10: every fileHash stored in a FileRecord, as the string the upload route stores,
\* is exactly 64 characters long and so passes the length check of POST /verify.
C10_StoredHashHas64Chars ==
    \A f \in DOMAIN files :
        isLength(fileHashString(files[f].fileHash), HashLength, HashLength)

C12_BatchIsolation ==
    [][\A hashes \in Batches, failing \in SUBSET (1..MaxBatch) :
          ( /\ Cardinality({i \in DOMAIN hashes :
                               ~isLength(hashes[i], HashLength, HashLength)}) = 1
            /\ failing = {}
            /\ PostVerifyBatch(hashes, failing) )
          => /\ lastResp'.code = 200
             /\ Len(lastResp'.batch.results) = Len(hashes)
             /\ lastResp'.batch.summary.errors = 1 ]_vars

\* C13: get, rename, delete, download and submit of a file id by an authenticated user,
\* when the request is well formed and the store answers: an id without a record is
\* answered 404, a record of another user 403, and in both cases the records, the
\* stored objects, the running handlers and the registry are left as they were; a
\* handler that goes on with the record was asked by its owner.
C13_OwnershipChecks ==
    [][\A r \in Reqs :
          FreeSlot(r) =>
            /\ (lastResp'.to # 0 /\ lastResp'.cause \notin {"db", "validation"})
                  => LET u == lastResp'.to
                         f == lastResp'.fileId
                         missing == f \notin DOMAIN files
                         foreign == f \in DOMAIN files /\ files[f].userId # u
                     IN  /\ missing <=> lastResp'.code = 404
                         /\ foreign <=> lastResp'.code = 403
                         /\ (missing \/ foreign)
                               => UNCHANGED <<files, objects, req, fileVerifications,
                                              allHashes, events>>
            /\ req'[r].kind \in {"update", "delete", "submit"}
                  => /\ req'[r].fileId \in DOMAIN files
                     /\ files[req'[r].fileId].userId = req'[r].user ]_vars

\* A request for another user's record has just been refused while the registry holds
\* a submitted hash.
C13_Witness ==
    /\ lastResp.code = 403
    /\ lastResp.to # 0
    /\ lastResp.fileId \in DOMAIN files
    /\ allHashes # <<>>

\* C14: a record becomes verified only in the update that follows a successful
\* submission, and that update attaches the transaction reference in the same write;
\* so every verified record carries a non-empty transaction reference.
C14_VerifiedCarriesTransaction ==
    [][/\ \A f \in DOMAIN files' :
             files'[f].verificationStatus = "verified" => files'[f].transactionHash # 0
       /\ \A f \in DOMAIN files \cap DOMAIN files' :
             (files[f].verificationStatus # "verified"
                 /\ files'[f].verificationStatus = "verified")
             => \E r \in Reqs :
                   /\ req[r].pc \in {"s_verified", "c_update"}
                   /\ req[r].fileId = f
                   /\ req[r].txHash \in 1..Len(events)
                   /\ files'[f].transactionHash = req[r].txHash
       /\ \A r \in Reqs :
             (req[r].pc \in {"s_verified", "c_update"} /\ req'[r].pc = "idle"
                 /\ lastResp'.cause # "db")
             => /\ files'[req[r].fileId].verificationStatus = "verified"
                /\ files'[req[r].fileId].transactionHash = req[r].txHash ]_vars

\* The backend has just answered 200 for a record it marked verified with the
\* reference of the latest transaction, while another record is not verified.
C14_Witness ==
    /\ lastResp.code = 200
    /\ lastResp.fileId \in DOMAIN files
    /\ files[lastResp.fileId].verificationStatus = "verified"
    /\ files[lastResp.fileId].transactionHash = Len(events)
    /\ \E g \in DOMAIN files : files[g].verificationStatus # "verified"


\* C15: when the blockchain RPC fails during a verification, POST /verify answers with a
\* service error (500); it never answers 200 saying that the hash does not exist.
C15_RpcFailureIsServiceError ==
    [][\A hash \in VerifyInputs, dbOk \in BOOLEAN :
          (isLength(hash, HashLength, HashLength) /\ PostVerify(hash, FALSE, dbOk))
          => /\ lastResp'.code = 500
             /\ lastResp'.cause # "not found" ]_vars

\* C16: a submission that the Registry reverts because the hash is already present
\* reaches the submit route as an error saying so, and the route answers it with a
\* conflict (409) carrying "already exists", unlike its answer to any other failure.
C16_DuplicateSubmissionIsConflict ==
    [][\A r \in Reqs :
          /\ ( /\ req[r].pc = "s_chain" /\ req'[r].pc = "s_failed"
               /\ lastTx'.status = "Hash already exists" )
             => req'[r].details = "Hash already exists"
          /\ ( /\ req[r].pc = "s_failed" /\ req'[r].pc = "idle"
               /\ req[r].details = "Hash already exists"
               /\ lastResp'.cause # "db" )
             => /\ lastResp'.code = 409
                /\ lastResp'.cause = "Hash already exists" ]_vars

\* The hashes of the successful submitHash calls, in the order they were mined: one
\* HashSubmitted event per success.
SubmittedHashes == [i \in 1..Len(events) |-> events[i].hash]

Range(seq) == {seq[i] : i \in DOMAIN seq}

C18_EnumerationMatchesSubmissions ==
    /\ getTotalHashes = Len(events)
    /\ getAllHashes = SubmittedHashes
    /\ Cardinality(Range(getAllHashes)) = Len(getAllHashes)
    /\ \A i \in DOMAIN getAllHashes : fileVerifications[getAllHashes[i]].exists
    /\ \A h \in Bytes32 : fileVerifications[h].exists => h \in Range(getAllHashes)
    /\ lastCall.fn = "getTotalHashes" => lastCall.result = Len(events)
    /\ lastCall.fn = "getAllHashes" => lastCall.result = SubmittedHashes

C18_Witness ==
    /\ lastCall.fn = "getAllHashes"
    /\ Len(lastCall.result) = NumHashes
    /\ \E i, j \in DOMAIN events : events[i].submitter # events[j].submitter

\* C19: getHashesBySubmitter(a) returns exactly the hashes whose entry records a as
\* submitter, each once and in submission order, none of another submitter; and
\* hasSubmittedHashes(a) is true exactly when that list is not empty.
C19_HashesBySubmitter ==
    /\ \A a \in Addresses :
          LET result == getHashesBySubmitter(a)
              mine   == {i \in DOMAIN events : events[i].submitter = a}
          IN  /\ Range(result) = {h \in Bytes32 : /\ fileVerifications[h].exists
                                                  /\ fileVerifications[h].submitter = a}
              /\ Len(result) = Cardinality(mine)
              /\ Cardinality(Range(result)) = Len(result)
              /\ \A i, j \in DOMAIN result :
                    i < j => \E p, q \in mine : /\ p < q
                                                /\ events[p].hash = result[i]
                                                /\ events[q].hash = result[j]
              /\ hasSubmittedHashes(a) <=> (result # <<>>)
    /\ lastCall.fn = "getHashesBySubmitter" =>
          lastCall.result = getHashesBySubmitter(lastCall.submitter)
    /\ lastCall.fn = "hasSubmittedHashes" =>
          (lastCall.result <=> getHashesBySubmitter(lastCall.submitter) # <<>>)

C19_Witness ==
    /\ lastCall.fn = "getHashesBySubmitter"
    /\ Len(lastCall.result) = 2
    /\ Len(events) = 3
    /\ events[2].submitter # lastCall.submitter

\* C20: verification is idempotent and read-only. While no submission succeeds, every
\* step leaves the answer of verifyHash and of POST /verify for every hash as it was; a
\* call returns that answer, whether or not the RPC is reachable, and changes neither
\* the Registry nor the FileRecord store.
C20_VerifyIdempotentReadOnly ==
    [][/\ events' = events => \A h \in Bytes32 : verifyHash(h)' = verifyHash(h)
       /\ (events' = events /\ files' # files) =>
             \A hash \in VerifyInputs :
                 verifyResponse(hash, TRUE, TRUE)' = verifyResponse(hash, TRUE, TRUE)
       /\ lastCall'.fn = "verifyHash" =>
             /\ lastCall'.result = verifyHash(lastCall'.hash)
             /\ UNCHANGED <<fileVerifications, allHashes, events, files, objects>>
       /\ lastResp'.error = "Failed to verify hash"
             => UNCHANGED <<fileVerifications, allHashes, events, files, objects>>
       /\ lastResp'.hash # <<>> =>
             /\ lastResp' = verifyResponse(lastResp'.hash, TRUE, TRUE)
             /\ UNCHANGED <<fileVerifications, allHashes, events, files, objects>> ]_vars

\* POST /verify answered 200 for a well-formed hash while the Registry and the
\* FileRecord store hold entries.
C20_Witness ==
    /\ lastResp.code = 200
    /\ lastResp.hash \in VerifyInputs
    /\ Len(allHashes) = NumHashes
    /\ files # <<>>

\* C21: a batch of well-formed hashes is answered with exactly one result per input
\* hash, in input order; the result of an item whose lookup succeeds is what the
\* single-hash flow computes for that hash, an item whose lookup fails gets an
\* error-tagged result and no other item does, and the summary counts partition the
\* results: total = number of inputs = verified + notFound + errors.
C21_BatchPerItemResults ==
    [][\A hashes \in Batches, failing \in SUBSET (1..MaxBatch) :
          (batchValid(hashes) /\ PostVerifyBatch(hashes, failing))
          => LET results == lastResp'.batch.results
                 summary == lastResp'.batch.summary
             IN  /\ lastResp'.code = 200
                 /\ Len(results) = Len(hashes)
                 /\ \A i \in DOMAIN hashes :
                       /\ results[i].hash = hashes[i]
                       /\ results[i].error <=> i \in failing
                       /\ i \notin failing =>
                             LET single == verification(hashes[i], TRUE)
                             IN  /\ results[i].exists = single.exists
                                 /\ results[i].submitter = single.submitter
                                 /\ results[i].timestamp = single.timestamp
                                 /\ results[i].fileMetadata = single.fileMetadata
                 /\ summary.total = Len(hashes)
                 /\ summary.total = summary.verified + summary.notFound + summary.errors
                 /\ summary.errors = Cardinality(failing \cap DOMAIN hashes) ]_vars

C21_Witness ==
    /\ lastResp.code = 200
    /\ DOMAIN lastResp.batch = {"results", "summary"}
    /\ Len(lastResp.batch.results) = MaxBatch
    /\ lastResp.batch.summary.errors = 1
    /\ lastResp.batch.summary.notFound = 1
    /\ files # <<>>

\* C22: when an account-deletion request of user U has just been answered as successful,
\* the account and the user document of U are gone and no FileRecord owned by U is in
\* the store, also when an upload by U was in flight.
C22_AccountDeletionCascades ==
    lastResp.error = "Account deleted successfully" =>
        LET U == lastResp.to
        IN  /\ U \notin accounts
            /\ U \notin DOMAIN users
            /\ \A f \in DOMAIN files : files[f].userId # U

\* C23: in a delete of a FileRecord by its owner the removal of the stored object is
\* best-effort: whether or not it succeeds, the handler goes on to delete the metadata
\* record without answering; the deletion of the record is then answered as a success
\* unless the document store itself fails, also when the stored object is still there,
\* and after the success the record no longer exists.
C23_DeleteBestEffortObject ==
    [][\A r \in Reqs :
          /\ req[r].pc = "d_cloud" /\ req'[r] # req[r]
                => /\ req'[r] = [req[r] EXCEPT !.pc = "d_delete"]
                   /\ lastResp' = NoResp
                   /\ files' = files
                   /\ objects' \in {objects, objects \ {req[r].publicId}}
          /\ req[r].pc = "d_delete" /\ req'[r] # req[r]
                => /\ req'[r] = Idle
                   /\ lastResp'.fileId = req[r].fileId
                   /\ lastResp'.code \in {200, 500}
                   /\ lastResp'.code = 500 => lastResp'.cause = "db" /\ files' = files
                   /\ lastResp'.code = 200 => /\ req[r].fileId \notin DOMAIN files'
                                              /\ \A g \in DOMAIN files' : files'[g] = files[g]
                                              /\ DOMAIN files' = DOMAIN files \ {req[r].fileId}
                   /\ objects' = objects ]_vars

\* A delete was answered as a success although the object of the only file ever
\* uploaded is still in the object store.
C23_Witness ==
    /\ lastResp.code = 200
    /\ lastResp.cause = "deleted"
    /\ DOMAIN files = {}
    /\ nextFileId = 2
    /\ nextPublicId = 2
    /\ objects # {}

\* C24: the decrypted private key of a wallet is never present in the frontend: no
\* dashboard flow that has read the user document (it is about to call, or has called,
\* blockchainService.submitHash in the browser) holds a private key.
C24_PrivateKeyNeverInFrontend ==
    \A r \in Reqs :
        req[r].pc \in {"c_chain", "c_update"} => req[r].wallet = ZeroAddress

\* The analysis a 200 response of POST /analyze carries.
Analyzed == lastResp.code = 200 /\ DOMAIN lastResp.batch = {"analysis", "fileInfo"}

\* C25: every result of the tamper heuristics has a status among clean, suspicious and
\* failed and a confidence within [0, 1].
C25_StatusAndConfidenceRange ==
    Analyzed =>
        /\ lastResp.batch.analysis.status \in {"clean", "suspicious", "failed"}
        /\ ~less(lastResp.batch.analysis.confidence, Lit00)
        /\ ~less([hi |-> Limb, lo |-> 0], lastResp.batch.analysis.confidence)

\* C26: a document shorter than the small-file threshold is answered suspicious with
\* confidence 0.3 whatever it holds; the office-tool scan and its floored confidence
\* touch only documents that are not that short.
C26_SmallFileFixedConfidence ==
    (/\ Analyzed
     /\ lastResp.batch.fileInfo.type = "application/msword"
     /\ lastResp.batch.fileInfo.size < SmallFile)
    => /\ lastResp.batch.analysis.status = "suspicious"
       /\ lastResp.batch.analysis.confidence = Lit03
       /\ lastResp.batch.analysis.details = "File size is unusually small"

\* C27: the duplicate check comes before the bytes are stored: when an upload is
\* answered 409 as a duplicate, the object store holds nothing of that upload, so no
\* stored object is left without a FileRecord referring to it.
C27_DuplicateStoresNothing ==
    [][\A r \in Reqs :
          (req[r].pc = "check" /\ req'[r].pc = "idle" /\ lastResp'.code = 409)
          => /\ req[r].publicId \notin objects'
             /\ \A o \in objects' : \E f \in DOMAIN files' : files'[f].publicId = o]_vars


C29_VerifiedNeverFailed ==
    [][\A f \in DOMAIN files :
          (f \in DOMAIN files' /\ files[f].verificationStatus = "verified")
          => files'[f].verificationStatus # "failed"]_vars


\* C30: every request to the upload, verify, verify-batch and submit handlers ends with
\* exactly one response whatever each call it awaits does: a step that leaves a handler
\* suspended sends nothing, the step that ends a request sends its response, and every
\* suspended handler ends; a failing status update in the submission-failure branch is
\* answered by one 500.
C30_ExactlyOneResponse ==
    /\ [][\A r \in FileReqs :
             /\ (req'[r] # req[r] /\ req'[r].pc # "idle") => lastResp'.code = 0
             /\ (req[r].pc # "idle" /\ req'[r].pc = "idle") => lastResp'.code # 0
             /\ req' = req => lastResp'.code # 0
             /\ (req[r].pc = "s_failed" /\ req'[r] # req[r]) =>
                   /\ req'[r].pc = "idle"
                   /\ lastResp'.code = 500
                   /\ \/ lastResp'.error = "Blockchain submission failed"
                      \/ /\ lastResp'.error = "Failed to submit for verification"
                         /\ files' = files]_vars
    /\ \A r \in FileReqs : (req[r].pc # "idle") ~> (req[r].pc = "idle")

C30_Witness ==
    /\ lastResp.code = 500
    /\ lastResp.error = "Failed to submit for verification"
    /\ lastResp.cause = "update"
    /\ ~config.backendContract
    /\ \A r \in FileReqs : req[r].pc = "idle"
    /\ lastResp.fileId \in DOMAIN files
    /\ files[lastResp.fileId].verificationStatus = "pending"

========================================================================
